---- MODULE Spec2Model ----
(***************************************************************************)
(* Scene-graph update pipeline of the renderer: the node registry          *)
(* (Tree.ts), the scene node (CoreNode.ts) with its dirty-flag driven      *)
(* recomputation, and the property animation (CoreAnimation.ts).           *)
(*                                                                         *)
(* Objects live in a heap: `nodes` is the sequence of all CoreNode objects *)
(* ever constructed and a handle is an index into it.  Handle 0 is the     *)
(* null/undefined object reference, NullId is the null parentId.           *)
(* Numbers are integers: rotation is counted in quarter turns, scale,      *)
(* mount and pivot take whole values, and an animation's progress is kept  *)
(* as progress * duration (the elapsed time), so that every product the    *)
(* code forms is exact.                                                    *)
(***************************************************************************)
EXTENDS Integers, Sequences, FiniteSets, TLC

VARIABLES
    nodes,       \* heap of CoreNode objects, indexed by handle
    tree,        \* Tree.ts _tree: Map<id, CoreNode>, as handles in insertion order
    dirtyNodes,  \* Tree.ts _dirtyNodes: Map<id, CoreNode>, same representation
    passLogs,    \* history: per recomputation pass since the last mutation, the handles update() ran on
    lastOp,      \* history: the last mutating operation and its arguments
    ops,         \* history: number of mutating operations performed
    anim,        \* the CoreAnimation object under test (SpecAnim)
    hist,        \* history of the animation: values at creation, calls made since
    fault,       \* the assertion failure the last operation ended with: <<>> or <<id>>
    raf,         \* the render loop (SpecLoop): its settings, the callback scheduled, the last tick
    stage        \* the stage's resources: the node's textures and the microtask queue (SpecTex)

vars == <<nodes, tree, dirtyNodes, passLogs, lastOp, ops, anim, hist, fault, raf, stage>>

----------------------------------------------------------------------------
(* Bounds *)

MaxNodes == 3
MaxOps == 2
MaxPasses == 2
MaxSteps == 6
MaxTicks == 3
MaxShaders == 3

MaxTextures == 3

NullId == 0 - 1
NullRef == 0


----------------------------------------------------------------------------
(* Bit masks *)

Bit(m, b) == (m \div b) % 2 = 1

BitOr(m, b) == IF Bit(m, b) THEN m ELSE m + b

RECURSIVE MaskOr(_, _, _)
MaskOr(m, t, b) ==
    IF b > 8 THEN m
    ELSE MaskOr(IF Bit(t, b) THEN BitOr(m, b) ELSE m, t, 2 * b)

----------------------------------------------------------------------------
(* Matrix3d: [ta tb tx; tc td ty] *)

Mat(ta, tb, tc, td, tx, ty) ==
    [ta |-> ta, tb |-> tb, tc |-> tc, td |-> td, tx |-> tx, ty |-> ty]

Cos(q) == CASE q % 4 = 0 -> 1 [] q % 4 = 1 -> 0 [] q % 4 = 2 -> 0 - 1 [] OTHER -> 0

Sin(q) == CASE q % 4 = 0 -> 0 [] q % 4 = 1 -> 1 [] q % 4 = 2 -> 0 [] OTHER -> 0 - 1

MatMultiply(a, b) ==
    Mat(a.ta * b.ta + a.tb * b.tc,
        a.ta * b.tb + a.tb * b.td,
        a.tc * b.ta + a.td * b.tc,
        a.tc * b.tb + a.td * b.td,
        a.ta * b.tx + a.tb * b.ty + a.tx,
        a.tc * b.tx + a.td * b.ty + a.ty)

MatTranslation(x, y) == Mat(1, 0, 0, 1, x, y)

MatRotate(q) == Mat(Cos(q), 0 - Sin(q), Sin(q), Cos(q), 0, 0)

MatScale(m, sx, sy) == MatMultiply(m, Mat(sx, 0, 0, sy, 0, 0))

MatTranslate(m, x, y) == MatMultiply(m, MatTranslation(x, y))

\* An optional matrix (`globalTransform?: Matrix3d`) is <<>> or <<m>>.
Some(v) == <<v>>

None == <<>>

----------------------------------------------------------------------------
(* Registry (Tree.ts) *)

IdOf(ns, h) == ns[h].props.id

\* Map.prototype.set keyed by node.id: an existing key keeps its position and
\* takes the new value, a new key is appended.
MapSet(ns, m, h) ==
    IF \E i \in 1 .. Len(m) : IdOf(ns, m[i]) = IdOf(ns, h)
    THEN [i \in 1 .. Len(m) |-> IF IdOf(ns, m[i]) = IdOf(ns, h) THEN h ELSE m[i]]
    ELSE Append(m, h)

\* Map.prototype.get: the object registered under id, NullRef when there is none.
MapGet(ns, m, id) ==
    IF \E i \in 1 .. Len(m) : IdOf(ns, m[i]) = id
    THEN m[CHOOSE i \in 1 .. Len(m) : IdOf(ns, m[i]) = id]
    ELSE NullRef

add(w, h) == [w EXCEPT !.tree = MapSet(w.nodes, w.tree, h)]

\* Mutant: the dirty nodes kept as a list that every mark is pushed onto.
markDirty_Push(w, h) == [w EXCEPT !.dirty = Append(w.dirty, h)]

markDirty(w, h) == [w EXCEPT !.dirty = MapSet(w.nodes, w.dirty, h)]

getDirtyNodes(w) == w.dirty

\* Mutant: the dirty set survives the pass.
clearDirtyNodes_Keep(w) == w

clearDirtyNodes(w) == [w EXCEPT !.dirty = <<>>]

hasDirtyNodes(w) == Len(w.dirty) > 0

\* tree.get(id): null for a null id, else the registered node (asserted truthy).
get(w, id) == IF id = NullId THEN NullRef ELSE MapGet(w.nodes, w.tree, id)

\* assertTruthy(resp, `Node ${id} not found`) fails: the operation ends here
\* with a fault that names the id.  A failure whose message names no id is
\* recorded with NullId.
assertFails(w, id) == [w EXCEPT !.fault = Some(id)]

\* The ids on which tree.get(id) fails its assertion.
Unregistered(w, id) == id # NullId /\ MapGet(w.nodes, w.tree, id) = NullRef

\* The first id of the list on which tree.get fails, if any.
RECURSIVE FirstUnregistered(_, _)
FirstUnregistered(w, idList) ==
    IF idList = <<>> THEN None
    ELSE IF Unregistered(w, Head(idList)) THEN Some(Head(idList))
    ELSE FirstUnregistered(w, Tail(idList))

\* tree.remove(id)
remove(w, id) == [w EXCEPT !.tree = SelectSeq(@, LAMBDA h : IdOf(w.nodes, h) # id)]

\* The outcome of a lookup: the fault it ended with, or the value it returned.
Returned(v) == [fault |-> None, value |-> v]

Threw(id) == [fault |-> Some(id), value |-> NullRef]

\* tree.get(id) as a call
getCall(w, id) == IF Unregistered(w, id) THEN Threw(id) ELSE Returned(get(w, id))

\* tree.findParent(n): asserts a truthy parentId, then reads the Map directly.
findParent(w, h) ==
    IF w.nodes[h].parentId = NullId \/ w.nodes[h].parentId = 0 THEN Threw(NullId)
    ELSE Returned(MapGet(w.nodes, w.tree, w.nodes[h].parentId))

RECURSIVE SeqFilterRefs(_)
SeqFilterRefs(s) ==
    IF s = <<>> THEN <<>>
    ELSE IF Head(s) = NullRef THEN SeqFilterRefs(Tail(s))
    ELSE <<Head(s)>> \o SeqFilterRefs(Tail(s))

\* tree.getNodes(idList): the nodes of a non-empty id list, else every node.
getNodes(w, idList) ==
    IF Len(idList) > 0
    THEN SeqFilterRefs([i \in 1 .. Len(idList) |-> get(w, idList[i])])
    ELSE w.tree

\* tree.getNodes(idList) as a call: in the non-empty branch every id goes
\* through tree.get, whose assertion ends the call before the filter runs.
getNodesCall(w, idList) ==
    IF Len(idList) > 0 /\ FirstUnregistered(w, idList) # None
    THEN Threw(FirstUnregistered(w, idList)[1])
    ELSE [fault |-> None, value |-> getNodes(w, idList)]

\* tree.findChildren(n): childrenIds is always an array, each id goes through tree.get.
findChildren(w, h) ==
    IF FirstUnregistered(w, w.nodes[h].childrenIds) # None
    THEN Threw(FirstUnregistered(w, w.nodes[h].childrenIds)[1])
    ELSE [fault |-> None,
          value |-> SeqFilterRefs([i \in 1 .. Len(w.nodes[h].childrenIds) |->
                                      get(w, w.nodes[h].childrenIds[i])])]

----------------------------------------------------------------------------
(* CoreNode *)

Put(w, h, n) == [w EXCEPT !.nodes[h] = n]

\* The scale-rotate matrix and the local transform are functions of props.
ScaleRotateOf(p) == MatScale(MatRotate(p.rotation), p.scaleX, p.scaleY)

LocalOf(p, sr) ==
    LET pivotTranslateX == p.pivotX * p.width
        pivotTranslateY == p.pivotY * p.height
        mountTranslateX == p.mountX * p.width
        mountTranslateY == p.mountY * p.height
    IN  MatTranslate(
            MatMultiply(
                MatTranslation(pivotTranslateX - mountTranslateX + p.x,
                               pivotTranslateY - mountTranslateY + p.y),
                sr),
            0 - pivotTranslateX, 0 - pivotTranslateY)

updateLocalTransform(n) ==
    [n EXCEPT !.localTransform = LocalOf(n.props, n.scaleRotateTransform)]

updateScaleRotateTransform(n) ==
    updateLocalTransform([n EXCEPT !.scaleRotateTransform = ScaleRotateOf(n.props)])

DefaultProps(id) ==
    [id |-> id, x |-> 0, y |-> 0, width |-> 100, height |-> 100,
     alpha |-> 1, clipping |-> FALSE, zIndex |-> 0, zIndexLocked |-> 0,
     scaleX |-> 1, scaleY |-> 1, mount |-> 0, mountX |-> 0, mountY |-> 0,
     pivot |-> 0, pivotX |-> 0, pivotY |-> 0, rotation |-> 0]

\* Field initialisers of the class, then the constructor body up to tree.add.
NewNode(props) ==
    updateScaleRotateTransform(
        [props |-> props,
         recalculationType |-> 6,
         hasUpdates |-> FALSE,
         globalTransform |-> None,
         scaleRotateTransform |-> Mat(1, 0, 0, 1, 0, 0),
         localTransform |-> Mat(1, 0, 0, 1, 0, 0),
         clippingRect |-> None,
         parentClippingRect |-> None,
         rects |-> 0,
         parentId |-> NullId,
         childrenIds |-> <<>>,
         updateMask |-> 0,
         children |-> <<>>,
         parentNode |-> NullRef])

\* new CoreNode(stage, props): the object takes the next handle and registers itself.
construct(w, props) ==
    add([w EXCEPT !.nodes = Append(w.nodes, NewNode(props))], Len(w.nodes) + 1)

setHasUpdates(w, h) ==
    markDirty([w EXCEPT !.nodes[h].hasUpdates = TRUE], h)

setChildrenHasUpdates(w, h) ==
    IF Len(w.nodes[h].childrenIds) = 0 THEN w
    ELSE [w EXCEPT !.nodes[h].updateMask = BitOr(@, 1)]

\* `!this.parentId` is true of null and of 0.
setParentHasUpdates(w, h) ==
    IF w.nodes[h].parentId = NullId \/ w.nodes[h].parentId = 0 THEN w
    ELSE [w EXCEPT !.nodes[h].updateMask = BitOr(@, 2)]

setRecalculationType(w, h, type) ==
    LET w1 == [w EXCEPT !.nodes[h].recalculationType = MaskOr(@, type, 1)]
        w2 == setHasUpdates(w1, h)
        w3 == IF Bit(type, 1) THEN setParentHasUpdates(w2, h) ELSE w2
    IN  IF Bit(type, 4) THEN setChildrenHasUpdates(w3, h) ELSE w3

\* A setter guarded by `if (this.props.<name> !== value)`.
SetIfChanged(w, h, name, value, type) ==
    IF w.nodes[h].props[name] # value
    THEN setRecalculationType([w EXCEPT !.nodes[h].props[name] = value], h, type)
    ELSE w

SetX(w, h, v) == SetIfChanged(w, h, "x", v, 2)

SetY(w, h, v) == SetIfChanged(w, h, "y", v, 2)

SetWidth(w, h, v) == SetIfChanged(w, h, "width", v, 2)

SetHeight(w, h, v) == SetIfChanged(w, h, "height", v, 2)

SetScaleX(w, h, v) == SetIfChanged(w, h, "scaleX", v, 4)

SetScaleY(w, h, v) == SetIfChanged(w, h, "scaleY", v, 4)

SetScale(w, h, v) == SetScaleY(SetScaleX(w, h, v), h, v)

SetMount(w, h, v) ==
    setRecalculationType(
        [w EXCEPT !.nodes[h].props.mountX = v,
                  !.nodes[h].props.mountY = v,
                  !.nodes[h].props.mount = v], h, 2)

SetMountX(w, h, v) ==
    setRecalculationType([w EXCEPT !.nodes[h].props.mountX = v], h, 2)

SetMountY(w, h, v) ==
    setRecalculationType([w EXCEPT !.nodes[h].props.mountY = v], h, 2)

SetPivot(w, h, v) ==
    IF w.nodes[h].props.pivotX # v \/ w.nodes[h].props.pivotY # v
    THEN setRecalculationType(
            [w EXCEPT !.nodes[h].props.pivotX = v,
                      !.nodes[h].props.pivotY = v], h, 2)
    ELSE w

SetPivotX(w, h, v) ==
    setRecalculationType([w EXCEPT !.nodes[h].props.pivotX = v], h, 2)

SetPivotY(w, h, v) ==
    setRecalculationType([w EXCEPT !.nodes[h].props.pivotY = v], h, 2)

SetRotation(w, h, v) == SetIfChanged(w, h, "rotation", v, 2)

SetAlpha(w, h, v) ==
    setRecalculationType([w EXCEPT !.nodes[h].props.alpha = v], h, 4)

SetClipping(w, h, v) ==
    setRecalculationType(
        [w EXCEPT !.nodes[h].props.clipping = v,
                  !.nodes[h].clippingRect = None], h, 4)

SetZIndexLocked(w, h, v) == [w EXCEPT !.nodes[h].props.zIndexLocked = v]

SetZIndex(w, h, v) ==
    setRecalculationType([w EXCEPT !.nodes[h].props.zIndex = v], h, 8)

\* get parent(): the cached object, re-resolved from the registry when the
\* parent bit of the update mask is set.
ParentOf(w, h) ==
    IF Bit(w.nodes[h].updateMask, 2)
    THEN get(w, w.nodes[h].parentId)
    ELSE w.nodes[h].parentNode

SeqRemove(s, v) == SelectSeq(s, LAMBDA e : e # v)

\* set parent(newParent); np is the new parent's handle, NullRef for null.
\* `newParent?.id` is undefined for null, and undefined never === parentId.
SetParent(w, h, np) ==
    IF np # NullRef /\ w.nodes[h].parentId = IdOf(w.nodes, np) THEN w
    ELSE IF w.nodes[h].parentId # 0 /\ Unregistered(w, w.nodes[h].parentId)
    THEN assertFails(w, w.nodes[h].parentId)
    ELSE
        LET id == IdOf(w.nodes, h)
            pid == w.nodes[h].parentId
            oldParent == get(w, pid)
            w1 == IF pid # NullId /\ pid # 0
                  THEN setChildrenHasUpdates(
                          setHasUpdates(
                              [w EXCEPT !.nodes[oldParent].childrenIds = SeqRemove(@, id)],
                              oldParent),
                          oldParent)
                  ELSE w
            w2 == [w1 EXCEPT !.nodes[h].parentId =
                      IF np = NullRef THEN NullId ELSE IdOf(w.nodes, np)]
            w3 == IF np # NullRef
                  THEN setChildrenHasUpdates(
                          setHasUpdates(
                              [w2 EXCEPT !.nodes[np].childrenIds = Append(@, id)],
                              np),
                          np)
                  ELSE w2
        IN  setRecalculationType([w3 EXCEPT !.nodes[h].parentNode = np], h, 8)

\* get zIndexLocked(): props.zIndexLocked || 0
zIndexLocked(w, h) == w.nodes[h].props.zIndexLocked

\* get zIndex(): the node's own z, capped by the parent's effective z when the
\* parent locks it.  The read follows parent links.
RECURSIVE zIndex(_, _)

\* Mutant: the cap by a locking parent is forgotten.
zIndex_Uncapped(w, h) == w.nodes[h].props.zIndex

zIndex(w, h) ==
    LET z == w.nodes[h].props.zIndex
        parent == ParentOf(w, h)
        p == IF parent = NullRef THEN 0 ELSE zIndex(w, parent)
    IN  IF parent # NullRef /\ zIndexLocked(w, parent) # 0
        THEN (IF z < p THEN z ELSE p)
        ELSE z

\* get worldAlpha(): props.alpha * (parent?.worldAlpha || 1)
RECURSIVE worldAlpha(_, _)
worldAlpha(w, h) ==
    LET parent == ParentOf(w, h)
        p == IF parent = NullRef THEN 0 ELSE worldAlpha(w, parent)
    IN  w.nodes[h].props.alpha * (IF p # 0 THEN p ELSE 1)

\* Array.prototype.sort is stable: insertion behind the last element not greater.
RECURSIVE InsertByZ(_, _, _)
InsertByZ(w, s, c) ==
    IF s = <<>> THEN <<c>>
    ELSE IF zIndex(w, c) - zIndex(w, Head(s)) < 0 THEN <<c>> \o s
    ELSE <<Head(s)>> \o InsertByZ(w, Tail(s), c)

RECURSIVE SortByZ(_, _)
SortByZ(w, s) ==
    IF s = <<>> THEN <<>>
    ELSE InsertByZ(w, SortByZ(w, SubSeq(s, 1, Len(s) - 1)), s[Len(s)])

sortChildren(w, h) ==
    [w EXCEPT !.nodes[h].children = SortByZ(w, w.nodes[h].children)]

Rect(x, y, width, height) ==
    [x |-> x, y |-> y, width |-> width, height |-> height, ref |-> <<>>]

Max(a, b) == IF a > b THEN a ELSE b

Min(a, b) == IF a < b THEN a ELSE b

intersectRect(a, b) ==
    LET x == Max(a.x, b.x)
        y == Max(a.y, b.y)
        width == Min(a.x + a.width, b.x + b.width) - x
        height == Min(a.y + a.height, b.y + b.height) - y
    IN  IF width > 0 /\ height > 0 THEN Rect(x, y, width, height) ELSE Rect(0, 0, 0, 0)

\* A rect is an object: `ref` is its identity, the node that created it and
\* the number of rects that node had created (kept in the node as `rects`).
NewRect(n, r) == [r EXCEPT !.ref = <<n.props.id, n.rects + 1>>]

\* The rect without its identity.
Geometry(r) == [r EXCEPT !.ref = <<>>]

\* calculateClippingRect(parentClippingRect); rects are <<>> (null) or <<rect>>.
\* `===` on rects compares identities.
calculateClippingRect(n, parentClippingRect) ==
    IF n.globalTransform = None THEN n
    ELSE IF ~n.props.clipping /\ parentClippingRect = None
    THEN [n EXCEPT !.clippingRect = None]
    ELSE IF n.parentClippingRect = parentClippingRect /\ n.clippingRect # None
    THEN n
    ELSE
        LET gt == n.globalTransform[1]
            isRotated == gt.tb # 0 \/ gt.tc # 0
            own == IF n.props.clipping /\ ~isRotated
                   THEN Some(Rect(gt.tx, gt.ty, n.props.width * gt.ta, n.props.height * gt.td))
                   ELSE None
            clippingRect ==
                IF parentClippingRect # None /\ own # None
                THEN Some(NewRect(n, intersectRect(parentClippingRect[1], own[1])))
                ELSE IF parentClippingRect # None THEN parentClippingRect
                ELSE IF own # None THEN Some(NewRect(n, own[1]))
                ELSE None
        IN  [n EXCEPT !.parentClippingRect = parentClippingRect,
                      !.clippingRect = clippingRect,
                      !.rects = IF own # None THEN @ + 1 ELSE @]

\* Mutant: the recalculation type survives update().
resetFlags_KeepType(w, h) ==
    [w EXCEPT !.nodes[h].hasUpdates = FALSE,
              !.nodes[h].updateMask = 0]

\* The tail of update(): reset update flag, reset recalculation type.
resetFlags(w, h) ==
    [w EXCEPT !.nodes[h].hasUpdates = FALSE,
              !.nodes[h].updateMask = 0,
              !.nodes[h].recalculationType = 0]

\* update(delta, parentClippingRect)
\* F(v), with v evaluated once.
Once(v, F(_)) == CHOOSE r \in {F(x) : x \in {v}} : TRUE

update(w, h, parentClippingRect) ==
    LET n0 == w.nodes[h]
        resolved == getNodesCall(w, n0.childrenIds)
        n1 == IF Bit(n0.updateMask, 1)
              THEN [n0 EXCEPT !.children = resolved.value]
              ELSE n0
        n2 == Once(n1, LAMBDA n : IF Bit(n.recalculationType, 2) THEN updateLocalTransform(n) ELSE n)
        n3 == Once(n2, LAMBDA n : IF Bit(n.recalculationType, 4) THEN updateScaleRotateTransform(n) ELSE n)
        parent == ParentOf(w, h)
        n4 == [n3 EXCEPT !.parentNode = parent]
        parentGlobalTransform ==
            IF parent = NullRef THEN None
            ELSE IF parent = h THEN n4.globalTransform
            ELSE w.nodes[parent].globalTransform
        n5 == [n4 EXCEPT !.globalTransform =
                  IF parentGlobalTransform # None
                  THEN Some(MatMultiply(parentGlobalTransform[1], n4.localTransform))
                  ELSE Some(n4.localTransform)]
        n6 == Once(n5, LAMBDA n : calculateClippingRect(n, parentClippingRect))
        w6 == Put(w, h, n6)
        w7 == IF Bit(n6.recalculationType, 8) THEN sortChildren(w6, h) ELSE w6
    IN  IF Bit(n0.updateMask, 1) /\ resolved.fault # None
        THEN assertFails(w, resolved.fault[1])
        ELSE IF Bit(n0.updateMask, 2) /\ Unregistered(w, n0.parentId)
        THEN assertFails(Put(w, h, n3), n0.parentId)
        ELSE resetFlags(w7, h)

----------------------------------------------------------------------------
(* Frame driver: the recomputation pass *)

\* The clipping rect the driver hands to update(): the parent's current one.
ParentClippingRectOf(w, h) ==
    LET parent == ParentOf(w, h)
    IN  IF parent = NullRef THEN None ELSE w.nodes[parent].clippingRect

RECURSIVE UpdateAll(_, _)
UpdateAll(w, list) ==
    IF list = <<>> \/ w.fault # None THEN w
    ELSE UpdateAll(update(w, Head(list), ParentClippingRectOf(w, Head(list))), Tail(list))

\* The end of a pass: the dirty set is cleared, unless a fault ended the pass.
endOfPass(w) == IF w.fault # None THEN w ELSE clearDirtyNodes(w)

\* One pass: update() on every node the registry lists as dirty, in the order
\* getDirtyNodes() lists them, then the dirty set is cleared.
recomputeDirty(w) == endOfPass(UpdateAll(w, getDirtyNodes(w)))

----------------------------------------------------------------------------
(* CoreAnimation *)

\* node[propName]
NodeProp(w, h, name) ==
    IF name = "scale" THEN w.nodes[h].props.scaleX ELSE w.nodes[h].props[name]

\* node[propName] = value
SetProp(w, h, name, v) ==
    CASE name = "x" -> SetX(w, h, v)
      [] name = "y" -> SetY(w, h, v)
      [] name = "width" -> SetWidth(w, h, v)
      [] name = "height" -> SetHeight(w, h, v)
      [] name = "scale" -> SetScale(w, h, v)
      [] name = "scaleX" -> SetScaleX(w, h, v)
      [] name = "scaleY" -> SetScaleY(w, h, v)
      [] name = "rotation" -> SetRotation(w, h, v)
      [] name = "alpha" -> SetAlpha(w, h, v)
      [] name = "zIndex" -> SetZIndex(w, h, v)

SeqToSet(s) == {s[i] : i \in 1 .. Len(s)}

\* new CoreAnimation(node, props, settings): the start values are the node's
\* current ones.  progress holds progress * duration.
NewAnimation(w, h, propsList, props, settings) ==
    [on |-> TRUE,
     node |-> h,
     propsList |-> propsList,
     props |-> props,
     propStartValues |-> [name \in SeqToSet(propsList) |-> NodeProp(w, h, name)],
     progress |-> 0,
     settings |-> settings,
     finished |-> 0]

\* The timing function of 'linear', and of no easing: (t) => t.
timingFunction(t) == t

\* applyEasing(p, s, e) with p = progress / duration
applyEasing(progress, duration, s, e) ==
    (timingFunction(progress) * (e - s)) \div duration + s

\* Mutant: the run ends as soon as progress reaches 1.
Overshoots_AtOne(progress, duration) == progress >= duration

\* this.progress > 1
Overshoots(progress, duration) == progress > duration

\* The loop over propsList in update(): one write per animated property.
RECURSIVE WriteProps(_, _, _)
WriteProps(w, a, i) ==
    IF i > Len(a.propsList) THEN w
    ELSE
        LET name == a.propsList[i]
            startValue == a.propStartValues[name]
            endValue == a.props[name]
            value ==
                IF a.settings.easing # ""
                THEN applyEasing(a.progress, a.settings.duration, startValue, endValue)
                ELSE startValue + ((endValue - startValue) * a.progress) \div a.settings.duration
        IN  WriteProps(SetProp(w, a.node, name, value), a, i + 1)

\* Mutant: nothing is emitted.
emitFinished_Silent(a) == a

\* this.emit('finished', {}): finished counts the emissions.
emitFinished(a) == [a EXCEPT !.finished = @ + 1]

\* update(dt): the world and the animation after the call.
animUpdate(w, a, dt) ==
    IF a.settings.duration = 0
    THEN [w |-> w, a |-> emitFinished(a)]
    ELSE
        LET progress == a.progress + dt
        IN  IF Overshoots(progress, a.settings.duration)
            THEN [w |-> w,
                  a |-> emitFinished(
                            [a EXCEPT !.progress =
                                IF a.settings.loop THEN 0 ELSE a.settings.duration])]
            ELSE LET a1 == [a EXCEPT !.progress = progress]
                 IN  [w |-> WriteProps(w, a1, 1), a |-> a1]

animReset(w, a) == animUpdate(w, [a EXCEPT !.progress = 0], 0)

RECURSIVE RestoreProps(_, _, _)
RestoreProps(w, a, i) ==
    IF i > Len(a.propsList) THEN w
    ELSE RestoreProps(SetProp(w, a.node, a.propsList[i], a.propStartValues[a.propsList[i]]),
                      a, i + 1)

animRestore(w, a) ==
    LET r == animReset(w, a)
    IN  [w |-> RestoreProps(r.w, r.a, 1), a |-> r.a]

\* Mutant: the swap without the temporaries; both maps end as the start values.
animReverse_Overwrite(w, a) ==
    [w |-> w,
     a |-> [a EXCEPT !.progress = 0,
                     !.props = a.propStartValues,
                     !.settings.stopMethod = IF a.settings.loop THEN @ ELSE "false"]]

\* Mutant: the stop method is left as it was.
animReverse_KeepStop(w, a) ==
    [w |-> w,
     a |-> [a EXCEPT !.progress = 0,
                     !.props = a.propStartValues,
                     !.propStartValues = a.props]]

animReverse(w, a) ==
    [w |-> w,
     a |-> [a EXCEPT !.progress = 0,
                     !.props = a.propStartValues,
                     !.propStartValues = a.props,
                     !.settings.stopMethod = IF a.settings.loop THEN @ ELSE "false"]]

----------------------------------------------------------------------------
(* Render loop *)

\* One tick of the loop: the world and the animation it works on, the calls of
\* drawFrame and updateAnimations it has made, what hasSceneUpdates returned to
\* it, and the callbacks it has scheduled.
Frame(w, a) ==
    [w |-> w, a |-> a, draws |-> 0, anims |-> 0, reports |-> <<>>, pending |-> <<>>]

\* stage.hasSceneUpdates(): the registry holds dirty nodes.
hasSceneUpdates(w) == hasDirtyNodes(w)

\* The call of stage.hasSceneUpdates() by the loop, its result noted.
Reported(f) == [f EXCEPT !.reports = Append(@, hasSceneUpdates(f.w))]

\* stage.updateAnimations(): the animation is advanced by the time passed.
updateAnimations(f, dt) ==
    IF f.a.on
    THEN [f EXCEPT !.w = animUpdate(f.w, f.a, dt).w,
                   !.a = animUpdate(f.w, f.a, dt).a,
                   !.anims = @ + 1]
    ELSE [f EXCEPT !.anims = @ + 1]

\* stage.drawFrame(): the dirty nodes are recomputed.
drawFrame(f) == [f EXCEPT !.w = recomputeDirty(f.w), !.draws = @ + 1]

\* requestAnimationFrame(callback), setTimeout(callback, 1000 / 60)
Schedule(f, callback) == [f EXCEPT !.pending = Append(@, callback)]

\* platform.ts, runLoop after stage.updateAnimations().
AfterAnimations(f, pauseRaf) ==
    IF pauseRaf
    THEN IF ~hasSceneUpdates(f.w)
         THEN Schedule(Reported(f), "timeout:runLoop")
         ELSE Schedule(drawFrame(Reported(f)), "raf:runLoop")
    ELSE Schedule(drawFrame(f), "raf:runLoop")

\* platform.ts, runLoop of startLoop.
startLoopRunLoop(f, pauseRaf, dt) == AfterAnimations(updateAnimations(f, dt), pauseRaf)

\* Mutant: loop(stage) is called without the return, and the timer is set too.
AfterPauseAnimations_NoReturn(f) ==
    Schedule(
        IF hasSceneUpdates(f.w) THEN Schedule(Reported(f), "raf:runLoop") ELSE Reported(f),
        "timeout:runPause")

\* runPause after stage.updateAnimations(): loop(stage) or setTimeout(runPause).
AfterPauseAnimations(f) ==
    Schedule(Reported(f),
             IF hasSceneUpdates(f.w) THEN "raf:runLoop" ELSE "timeout:runPause")

\* runPause of pause(stage).
runPause(f, dt) == AfterPauseAnimations(updateAnimations(f, dt))

\* Mutant: the frame is drawn whether or not the loop is to pause.
runLoop_NeverPauses(f, pauseRaf, dt) ==
    Schedule(drawFrame(IF pauseRaf THEN Reported(f) ELSE f), "raf:runLoop")

\* runLoop of loop(stage).
runLoop(f, pauseRaf, dt) ==
    IF pauseRaf /\ ~hasSceneUpdates(f.w)
    THEN runPause(Reported(f), dt)
    ELSE Schedule(drawFrame(IF pauseRaf THEN Reported(f) ELSE f), "raf:runLoop")

----------------------------------------------------------------------------
(* CoreNode textures *)

\* t.texture is the node's props.texture (0 for null), t.textures the textures
\* created so far, each with its state and the number of times the node's
\* handlers listen on it, t.microtasks the queue of microtasks, each the
\* texture its closure holds; t.emitted counts the node's 'loaded' and 'failed'
\* events, t.stale those caused by a texture that was not the node's texture
\* when they were emitted.

\* n events of the node, caused by texture k.
Emits(t, k, n) ==
    [t EXCEPT !.emitted = @ + n,
              !.stale = @ + (IF k # t.texture THEN n ELSE 0)]

\* unloadTexture()
unloadTexture(t) ==
    [t EXCEPT !.textures = IF t.texture # 0 THEN [@ EXCEPT ![t.texture].listeners = 0] ELSE @,
              !.texture = 0]

\* loadTexture(textureType, props, options) after the unload of the existing
\* texture: txManager.loadTexture makes a new texture, and a microtask is queued.
AcquireTexture(t) ==
    [t EXCEPT !.textures = Append(@, [state |-> "initial", listeners |-> 0]),
              !.texture = Len(t.textures) + 1,
              !.microtasks = Append(@, Len(t.textures) + 1)]

loadTexture(t) == AcquireTexture(IF t.texture # 0 THEN unloadTexture(t) ELSE t)

\* The microtask of loadTexture: the event of an already settled texture is
\* emitted, then the handlers are attached to the texture.
AttachListeners(t, k) ==
    [t EXCEPT !.microtasks = Tail(@), !.textures[k].listeners = @ + 1]

runMicrotask(t) ==
    AttachListeners(
        IF t.textures[Head(t.microtasks)].state # "initial"
        THEN Emits(t, Head(t.microtasks), 1) ELSE t,
        Head(t.microtasks))

\* texture.setState(state): the texture's listeners are called.
setState(t, k, state) ==
    Emits([t EXCEPT !.textures[k].state = state], k, t.textures[k].listeners)

----------------------------------------------------------------------------
(* CoreTextureManager: the download and upload queues *)

\* m.textures are the textures made by loadTexture, each with whether it is an
\* ImageTexture, its state, whether its data has arrived, how often
\* loadCtxTexture was called on it and whether one such call found no data;
\* m.promises the textures whose getTextureData() promise is unsettled;
\* m.downloaded and m.uploaded the textures the running call of processSome
\* shifted off the two queues.

maxItemsPerFrame == 25

Includes(queue, k) == \E i \in 1 .. Len(queue) : queue[i] = k

enqueueDownloadTextureSource(m, k) ==
    IF ~Includes(m.downloadTextureSourceQueue, k)
    THEN [m EXCEPT !.downloadTextureSourceQueue = Append(@, k)]
    ELSE m

enqueueUploadTexture(m, k) ==
    IF ~Includes(m.uploadTextureQueue, k)
    THEN [m EXCEPT !.uploadTextureQueue = Append(@, k)]
    ELSE m

\* new TextureClass(this, props)
NewTexture(m, image) ==
    [m EXCEPT !.textures = Append(@, [image |-> image, state |-> "initial", data |-> FALSE,
                                      uploads |-> 0, early |-> FALSE])]

\* txManager.loadTexture(textureType, props) with a registered texture type.
txManagerLoadTexture(m, image) ==
    IF image
    THEN enqueueDownloadTextureSource(NewTexture(m, image), Len(m.textures) + 1)
    ELSE enqueueUploadTexture(NewTexture(m, image), Len(m.textures) + 1)

\* Mutant: the texture is queued for upload when its download starts.
startDownload_UploadAtOnce(m, k) ==
    enqueueUploadTexture(
        [m EXCEPT !.textures[k].state = "loading", !.promises = @ \cup {k}], k)

\* texture.setState('loading'); texture.getTextureData(): a promise is pending.
startDownload(m, k) ==
    [m EXCEPT !.textures[k].state = "loading", !.promises = @ \cup {k}]

\* texture.loadCtxTexture()
loadCtxTexture(m, k) ==
    [m EXCEPT !.textures[k].uploads = @ + 1,
              !.textures[k].early = @ \/ (m.textures[k].image /\ ~m.textures[k].data)]

\* The first loop of processSome.
RECURSIVE processDownloads(_, _)
processDownloads(m, maxItems) ==
    IF Len(m.downloadTextureSourceQueue) > 0 /\ m.itemsProcessed < maxItems
    THEN Once(startDownload(m, Head(m.downloadTextureSourceQueue)),
              LAMBDA t : processDownloads(
                  [t EXCEPT !.downloadTextureSourceQueue = Tail(@),
                            !.downloaded = Append(@, Head(t.downloadTextureSourceQueue)),
                            !.itemsProcessed = @ + 1],
                  maxItems))
    ELSE m

\* The second loop of processSome.
RECURSIVE processUploads(_, _)
processUploads(m, maxItems) ==
    IF Len(m.uploadTextureQueue) > 0 /\ m.itemsProcessed < maxItems
    THEN Once(loadCtxTexture(m, Head(m.uploadTextureQueue)),
              LAMBDA t : processUploads(
                  [t EXCEPT !.uploadTextureQueue = Tail(@),
                            !.uploaded = Append(@, Head(t.uploadTextureQueue)),
                            !.itemsProcessed = @ + 1],
                  maxItems))
    ELSE m

\* Mutant: the second loop counts from 0 again.
processSome_LimitPerQueue(m, maxItems) ==
    IF m.initialized = FALSE THEN m
    ELSE processUploads(
             [processDownloads([m EXCEPT !.itemsProcessed = 0], maxItems)
                 EXCEPT !.itemsProcessed = 0],
             maxItems)

processSome(m, maxItems) ==
    IF m.initialized = FALSE THEN m
    ELSE processUploads(processDownloads([m EXCEPT !.itemsProcessed = 0], maxItems), maxItems)

\* getTextureData() resolved: .then(() => this.enqueueUploadTexture(texture))
downloadResolved(m, k) ==
    enqueueUploadTexture([m EXCEPT !.textures[k].data = TRUE, !.promises = @ \ {k}], k)

\* getTextureData() rejected: .catch((err) => texture.setState('failed', err))
downloadRejected(m, k) ==
    [m EXCEPT !.textures[k].state = "failed", !.promises = @ \ {k}]

----------------------------------------------------------------------------
(* CoreShaderManager.useShader *)

\* m.attachedShader is the manager's field (0 for null); m.attached tells of
\* each shader whether its last call was attach(); m.calls lists the attach()
\* and detach() calls made, in order.

attach(m, shader) ==
    [m EXCEPT !.attached[shader] = TRUE, !.calls = Append(@, <<"attach", shader>>)]

detach(m, shader) ==
    [m EXCEPT !.attached[shader] = FALSE, !.calls = Append(@, <<"detach", shader>>)]

\* Mutant: the attached shader is not detached.
useShader_NoDetach(m, shader) ==
    IF m.attachedShader = shader THEN m
    ELSE [attach(m, shader) EXCEPT !.attachedShader = shader]

useShader(m, shader) ==
    IF m.attachedShader = shader THEN m
    ELSE [attach(IF m.attachedShader # 0 THEN detach(m, m.attachedShader) ELSE m, shader)
             EXCEPT !.attachedShader = shader]

----------------------------------------------------------------------------
(* The scene graph as a state machine *)

World == [nodes |-> nodes, tree |-> tree, dirty |-> dirtyNodes, fault |-> None]

Handles == 1 .. Len(nodes)

NoAnim == [on |-> FALSE]

NoHist == [on |-> FALSE]

NoRaf == [on |-> FALSE]

NoStage == [on |-> FALSE]

Op(name, h, a, b) == [op |-> name, h |-> h, a |-> a, b |-> b]

\* A mutation by the application: the world after it, and what it was.
Mutate(w, op) ==
    /\ ops < MaxOps
    /\ nodes' = w.nodes
    /\ tree' = w.tree
    /\ dirtyNodes' = w.dirty
    /\ passLogs' = <<>>
    /\ lastOp' = op
    /\ ops' = ops + 1
    /\ fault' = w.fault
    /\ UNCHANGED <<anim, hist, raf, stage>>

\* The parent chain of h, h included.
RECURSIVE Chain(_, _)
Chain(w, h) ==
    IF h = NullRef THEN {} ELSE {h} \cup Chain(w, ParentOf(w, h))

\* The registry after n nodes were constructed with ids 0 .. n-1.
RECURSIVE Constructed(_)
Constructed(n) ==
    IF n = 0 THEN [nodes |-> <<>>, tree |-> <<>>, dirty |-> <<>>, fault |-> None]
    ELSE construct(Constructed(n - 1), DefaultProps(n - 1))

Init ==
    /\ nodes = Constructed(MaxNodes).nodes
    /\ tree = Constructed(MaxNodes).tree
    /\ dirtyNodes = Constructed(MaxNodes).dirty
    /\ passLogs = <<>>
    /\ lastOp = Op("init", 0, 0, 0)
    /\ ops = 0
    /\ anim = NoAnim
    /\ hist = NoHist
    /\ fault = None
    /\ raf = NoRaf
    /\ stage = NoStage

CreateNode ==
    \E id \in 0 .. Len(nodes) :
        /\ Len(nodes) < MaxNodes
        /\ LET w == construct(World, DefaultProps(id))
           IN  /\ nodes' = w.nodes
               /\ tree' = w.tree
               /\ dirtyNodes' = w.dirty
               /\ fault' = w.fault
        /\ passLogs' = <<>>
        /\ lastOp' = Op("create", Len(nodes) + 1, id, 0)
        /\ UNCHANGED <<ops, anim, hist, raf, stage>>

\* node.parent = newParent.  The reads that follow parent links (zIndex in
\* sortChildren) need a finite chain, so the assignments drawn keep it finite.
AssignParent ==
    \E h \in Handles, np \in Handles \cup {NullRef} :
        /\ h \notin Chain(World, np)
        /\ Mutate(SetParent(World, h, np), Op("parent", h, nodes[h].parentId, np))

\* Whether the assignment gives the property another value: 1 or 0.
Changes(h, name, v) == IF nodes[h].props[name] # v THEN 1 ELSE 0

AssignX ==
    \E h \in Handles, v \in {0, 50} :
        Mutate(SetX(World, h, v), Op("x", h, v, Changes(h, "x", v)))

AssignY ==
    \E h \in Handles, v \in {0, 20} :
        Mutate(SetY(World, h, v), Op("y", h, v, Changes(h, "y", v)))

AssignScaleX ==
    \E h \in Handles, v \in {1, 2} :
        Mutate(SetScaleX(World, h, v), Op("scaleX", h, v, Changes(h, "scaleX", v)))

AssignRotation ==
    \E h \in Handles, v \in {0, 1} :
        Mutate(SetRotation(World, h, v), Op("rotation", h, v, Changes(h, "rotation", v)))

AssignZIndex ==
    \E h \in Handles, v \in {0, 1, 2} : Mutate(SetZIndex(World, h, v), Op("zIndex", h, v, 0))

AssignZIndexLocked ==
    \E h \in Handles, v \in {0, 1} :
        Mutate(SetZIndexLocked(World, h, v), Op("zIndexLocked", h, v, 0))

RecomputeDirty ==
    /\ Len(passLogs) < MaxPasses
    /\ LET w == recomputeDirty(World)
       IN  /\ nodes' = w.nodes
           /\ tree' = w.tree
           /\ dirtyNodes' = w.dirty
           /\ fault' = w.fault
    /\ passLogs' = Append(passLogs, getDirtyNodes(World))
    /\ UNCHANGED <<lastOp, ops, anim, hist, raf, stage>>

Next ==
    \/ AssignParent
    \/ AssignX
    \/ AssignY
    \/ AssignScaleX
    \/ AssignRotation
    \/ RecomputeDirty

\* Z-order specification: a chain 1 <- 2 <- ... of nodes, each constructed with
\* z-index locking on and a z-index of its own, after its first pass.
RECURSIVE ConstructedZ(_, _)
ConstructedZ(n, zs) ==
    IF n = 0 THEN [nodes |-> <<>>, tree |-> <<>>, dirty |-> <<>>, fault |-> None]
    ELSE construct(ConstructedZ(n - 1, zs),
                   [DefaultProps(n - 1) EXCEPT !.zIndex = zs[n], !.zIndexLocked = 1])

RECURSIVE Chained(_, _)
Chained(w, n) ==
    IF n <= 1 THEN w ELSE SetParent(Chained(w, n - 1), n, n - 1)

InitZ ==
    \E zs \in [1 .. MaxNodes -> {0, 2}] :
        LET w == recomputeDirty(Chained(ConstructedZ(MaxNodes, zs), MaxNodes))
        IN  /\ nodes = w.nodes
            /\ tree = w.tree
            /\ dirtyNodes = w.dirty
            /\ passLogs = <<>>
            /\ lastOp = Op("init", 0, 0, 0)
            /\ ops = 0
            /\ anim = NoAnim
            /\ hist = NoHist
            /\ fault = None
            /\ raf = NoRaf
            /\ stage = NoStage

NextZ ==
    \/ AssignParent
    \/ AssignZIndex
    \/ AssignZIndexLocked
    \/ RecomputeDirty

SpecZ == InitZ /\ [][NextZ]_vars

Spec == Init /\ [][Next]_vars

\* Registry specification: nodes are constructed one by one, with a fresh id or
\* with the id of a node constructed before.
InitReg ==
    /\ nodes = <<>>
    /\ tree = <<>>
    /\ dirtyNodes = <<>>
    /\ passLogs = <<>>
    /\ lastOp = Op("init", 0, 0, 0)
    /\ ops = 0
    /\ anim = NoAnim
    /\ hist = NoHist
    /\ fault = None
    /\ raf = NoRaf
    /\ stage = NoStage

NextReg ==
    \/ CreateNode
    \/ AssignParent
    \/ RecomputeDirty

SpecReg == InitReg /\ [][NextReg]_vars

\* Chain specification: a chain 1 <- 2 <- ... of clipping nodes with ids from
\* 1, the root 200 x 200, its child at x = 150; then property assignments and
\* passes.
ChainProps(n) ==
    [DefaultProps(n) EXCEPT !.clipping = TRUE,
                            !.width = IF n = 1 THEN 200 ELSE @,
                            !.height = IF n = 1 THEN 200 ELSE @,
                            !.x = IF n = 2 THEN 150 ELSE @]

RECURSIVE ConstructedChain(_)
ConstructedChain(n) ==
    IF n = 0 THEN [nodes |-> <<>>, tree |-> <<>>, dirty |-> <<>>, fault |-> None]
    ELSE construct(ConstructedChain(n - 1), ChainProps(n))

InitChain ==
    /\ nodes = Chained(ConstructedChain(MaxNodes), MaxNodes).nodes
    /\ tree = Chained(ConstructedChain(MaxNodes), MaxNodes).tree
    /\ dirtyNodes = Chained(ConstructedChain(MaxNodes), MaxNodes).dirty
    /\ passLogs = <<>>
    /\ lastOp = Op("init", 0, 0, 0)
    /\ ops = 0
    /\ anim = NoAnim
    /\ hist = NoHist
    /\ fault = None
    /\ raf = NoRaf
    /\ stage = NoStage

AssignAlpha ==
    \E h \in Handles, v \in {0, 1} :
        Mutate(SetAlpha(World, h, v), Op("alpha", h, v, Changes(h, "alpha", v)))

AssignClipping ==
    \E h \in Handles, v \in BOOLEAN :
        Mutate(SetClipping(World, h, v),
               Op("clipping", h, IF v THEN 1 ELSE 0, Changes(h, "clipping", v)))

NextChain ==
    \/ AssignX
    \/ AssignScaleX
    \/ AssignRotation
    \/ AssignAlpha
    \/ AssignClipping
    \/ RecomputeDirty

SpecChain == InitChain /\ [][NextChain]_vars

\* Mount specification: a root (ids from 1) constructed at x = rx and children
\* of it constructed with a mount and a pivot; then positions and pivots are
\* assigned and passes run.
MountProps(n, m, pv, rx) ==
    IF n = 1 THEN [DefaultProps(n) EXCEPT !.x = rx]
    ELSE [DefaultProps(n) EXCEPT !.mount = m, !.mountX = m, !.mountY = m,
                                 !.pivot = pv, !.pivotX = pv, !.pivotY = pv]

RECURSIVE ConstructedMount(_, _, _, _)
ConstructedMount(n, m, pv, rx) ==
    IF n = 0 THEN [nodes |-> <<>>, tree |-> <<>>, dirty |-> <<>>, fault |-> None]
    ELSE construct(ConstructedMount(n - 1, m, pv, rx), MountProps(n, m, pv, rx))

\* Nodes 2 .. n are made children of node 1.
RECURSIVE Starred(_, _)
Starred(w, n) ==
    IF n <= 1 THEN w ELSE SetParent(Starred(w, n - 1), n, 1)

InitMount ==
    \E m \in {0, 1}, pv \in {0, 1}, rx \in {0, 50} :
        /\ nodes = Starred(ConstructedMount(MaxNodes, m, pv, rx), MaxNodes).nodes
        /\ tree = Starred(ConstructedMount(MaxNodes, m, pv, rx), MaxNodes).tree
        /\ dirtyNodes = Starred(ConstructedMount(MaxNodes, m, pv, rx), MaxNodes).dirty
        /\ passLogs = <<>>
        /\ lastOp = Op("init", 0, 0, 0)
        /\ ops = 0
        /\ anim = NoAnim
        /\ hist = NoHist
        /\ fault = None
        /\ raf = NoRaf
        /\ stage = NoStage

AssignPivotX ==
    \E h \in Handles, v \in {0, 1} :
        Mutate(SetPivotX(World, h, v), Op("pivotX", h, v, Changes(h, "pivotX", v)))

NextMount ==
    \/ AssignX
    \/ AssignY
    \/ AssignPivotX
    \/ RecomputeDirty

SpecMount == InitMount /\ [][NextMount]_vars

\* Parent specification: the parent setter takes any node, the node itself and
\* its descendants included, and null.
AssignAnyParent ==
    \E h \in Handles, np \in Handles \cup {NullRef} :
        Mutate(SetParent(World, h, np), Op("parent", h, nodes[h].parentId, np))

NextParent ==
    \/ AssignAnyParent
    \/ AssignX
    \/ RecomputeDirty

SpecParent == Init /\ [][NextParent]_vars

\* Removal specification: nodes are re-parented and deregistered, passes run,
\* and the registry is asked for nodes, parents and children.
RegisteredIds == {IdOf(nodes, tree[i]) : i \in 1 .. Len(tree)}

RemoveNode ==
    \E id \in RegisteredIds : Mutate(remove(World, id), Op("remove", NullRef, id, 0))

\* A lookup changes nothing; its outcome is recorded.
Lookup(r, op) ==
    /\ lastOp' = op
    /\ fault' = r.fault
    /\ UNCHANGED <<nodes, tree, dirtyNodes, passLogs, ops, anim, hist, raf, stage>>

CallGet ==
    \E id \in 0 .. MaxNodes - 1 :
        Lookup(getCall(World, id), Op("get", NullRef, id, getCall(World, id).value))

CallFindParent ==
    \E h \in Handles :
        Lookup(findParent(World, h),
               Op("findParent", h, nodes[h].parentId, findParent(World, h).value))

CallFindChildren ==
    \E h \in Handles : Lookup(findChildren(World, h), Op("findChildren", h, 0, 0))

NextRem ==
    \/ AssignParent
    \/ RemoveNode
    \/ RecomputeDirty
    \/ CallGet
    \/ CallFindParent
    \/ CallFindChildren

SpecRem == Init /\ [][NextRem]_vars

\* Animation specification: one node, recomputed once, and one animation
\* created on it; then any calls of update, reverse, reset and restore.
AnimTargets ==
    { [propsList |-> <<"x">>, props |-> [name \in {"x"} |-> 100]],
      [propsList |-> <<"x", "scale">>,
       props |-> [name \in {"x", "scale"} |-> IF name = "x" THEN 100 ELSE 5]],
      [propsList |-> <<"y">>, props |-> [name \in {"y"} |-> 0]] }

AnimSettings ==
    [duration : {0, 4}, loop : BOOLEAN, easing : {"", "linear"}, stopMethod : {"reverse", "false"}]

Steps == {0, 1, 2, 4, 5}

InitAnim ==
    \E t \in AnimTargets, settings \in AnimSettings :
        LET w == recomputeDirty(SetX(Constructed(1), 1, 0 - 100))
            a == NewAnimation(w, 1, t.propsList, t.props, settings)
        IN  /\ nodes = w.nodes
            /\ tree = w.tree
            /\ dirtyNodes = w.dirty
            /\ passLogs = <<>>
            /\ lastOp = Op("animate", 1, 0, 0)
            /\ ops = 0
            /\ anim = a
            /\ hist = [on |-> TRUE, orig |-> a.propStartValues, target |-> a.props,
                       trip |-> "leg1", sumDt |-> 0, onlyUpdates |-> TRUE,
                       reversals |-> 0, stop0 |-> settings.stopMethod]
            /\ fault = None
            /\ raf = NoRaf
            /\ stage = NoStage

\* hist.reversals: 0 before any reverse(), then 1 after an odd number of calls
\* and 2 after an even number; hist.stop0: the stop method of the settings given.

\* The effect of an animation call r, recorded as op, with the history h.
AnimStep(r, op, h) ==
    /\ ops < MaxSteps
    /\ nodes' = r.w.nodes
    /\ tree' = r.w.tree
    /\ dirtyNodes' = r.w.dirty
    /\ anim' = r.a
    /\ lastOp' = op
    /\ ops' = ops + 1
    /\ hist' = h
    /\ fault' = r.w.fault
    /\ UNCHANGED <<passLogs, raf, stage>>

\* Where a call of update(dt) leaves the round trip: run, completion, reverse(),
\* run, completion, with positive steps only.
TripAfterUpdate(dt, signalled) ==
    CASE dt > 0 /\ hist.trip = "leg1" -> IF signalled THEN "done1" ELSE "leg1"
      [] dt > 0 /\ hist.trip = "leg2" -> IF signalled THEN "done2" ELSE "leg2"
      [] OTHER -> "off"

AnimUpdate ==
    \E dt \in Steps :
        LET r == animUpdate(World, anim, dt)
        IN  AnimStep(r, Op("update", anim.node, dt, 0),
                     [hist EXCEPT !.trip = TripAfterUpdate(dt, r.a.finished > anim.finished),
                                  !.sumDt = @ + dt])

AnimReverse ==
    AnimStep(animReverse(World, anim), Op("reverse", anim.node, 0, 0),
             [hist EXCEPT !.trip = IF hist.trip = "done1" THEN "leg2" ELSE "off",
                          !.onlyUpdates = FALSE,
                          !.reversals = IF @ = 0 THEN 1 ELSE 3 - @])

AnimReset ==
    AnimStep(animReset(World, anim), Op("reset", anim.node, 0, 0),
             [hist EXCEPT !.trip = "off", !.onlyUpdates = FALSE])

AnimRestore ==
    AnimStep(animRestore(World, anim), Op("restore", anim.node, 0, 0),
             [hist EXCEPT !.trip = "off", !.onlyUpdates = FALSE])

NextAnim ==
    \/ AnimUpdate
    \/ AnimReverse
    \/ AnimReset
    \/ AnimRestore

SpecAnim == InitAnim /\ [][NextAnim]_vars

\* Loop specification: one node, recomputed once, and one animation on it; the
\* loop is started by either startLoop, with or without pauseRaf; then ticks
\* run the scheduled callback and the application assigns x between them.
LoopSettings ==
    [duration : {0, 4}, loop : BOOLEAN, easing : {""}, stopMethod : {"false"}]

TickSteps == {1, 2}

InitLoop ==
    \E t \in AnimTargets, settings \in LoopSettings,
       file \in {"platform", "loop"}, pauseRaf \in BOOLEAN :
        /\ nodes = recomputeDirty(SetX(Constructed(1), 1, 0 - 100)).nodes
        /\ tree = recomputeDirty(SetX(Constructed(1), 1, 0 - 100)).tree
        /\ dirtyNodes = recomputeDirty(SetX(Constructed(1), 1, 0 - 100)).dirty
        /\ passLogs = <<>>
        /\ lastOp = Op("startLoop", 0, 0, 0)
        /\ ops = 0
        /\ anim = NewAnimation(recomputeDirty(SetX(Constructed(1), 1, 0 - 100)),
                               1, t.propsList, t.props, settings)
        /\ hist = NoHist
        /\ fault = None
        /\ raf = [on |-> TRUE, file |-> file, pauseRaf |-> pauseRaf,
                  pending |-> <<"raf:runLoop">>, ticks |-> 0,
                  draws |-> 0, anims |-> 0, reports |-> <<>>]
        /\ stage = NoStage

\* The loop started on a scene with no animation.
InitLoopIdle ==
    \E file \in {"platform", "loop"}, pauseRaf \in BOOLEAN :
        /\ nodes = recomputeDirty(SetX(Constructed(1), 1, 0 - 100)).nodes
        /\ tree = recomputeDirty(SetX(Constructed(1), 1, 0 - 100)).tree
        /\ dirtyNodes = recomputeDirty(SetX(Constructed(1), 1, 0 - 100)).dirty
        /\ passLogs = <<>>
        /\ lastOp = Op("startLoop", 0, 0, 0)
        /\ ops = 0
        /\ anim = NoAnim
        /\ hist = NoHist
        /\ fault = None
        /\ raf = [on |-> TRUE, file |-> file, pauseRaf |-> pauseRaf,
                  pending |-> <<"raf:runLoop">>, ticks |-> 0,
                  draws |-> 0, anims |-> 0, reports |-> <<>>]
        /\ stage = NoStage

\* The pending callbacks without the i-th.
Fired(pending, i) == SubSeq(pending, 1, i - 1) \o SubSeq(pending, i + 1, Len(pending))

\* The i-th pending callback has run as the tick f, with the time dt it found
\* passed.  raf.ticks counts the ticks up to MaxTicks; a loop with an animation,
\* whose counters grow with every tick, is followed for MaxTicks ticks.
TickStep(f, dt, i) ==
    /\ anim.on => raf.ticks < MaxTicks
    /\ lastOp' = Op("tick", 0, dt, 0)
    /\ \E g \in {f} :
           /\ nodes' = g.w.nodes
           /\ tree' = g.w.tree
           /\ dirtyNodes' = g.w.dirty
           /\ fault' = g.w.fault
           /\ anim' = g.a
           /\ raf' = [raf EXCEPT !.ticks = IF @ < MaxTicks THEN @ + 1 ELSE @,
                                 !.pending = Fired(raf.pending, i) \o g.pending,
                                 !.draws = g.draws, !.anims = g.anims,
                                 !.reports = g.reports]
    /\ UNCHANGED <<passLogs, ops, hist, stage>>

TickStartLoop ==
    /\ raf.file = "platform"
    /\ \E i \in 1 .. Len(raf.pending), dt \in TickSteps :
           TickStep(startLoopRunLoop(Frame(World, anim), raf.pauseRaf, dt), dt, i)

TickRunLoop ==
    /\ raf.file = "loop"
    /\ \E i \in 1 .. Len(raf.pending), dt \in TickSteps :
           /\ raf.pending[i] = "raf:runLoop"
           /\ TickStep(runLoop(Frame(World, anim), raf.pauseRaf, dt), dt, i)

TickRunPause ==
    /\ raf.file = "loop"
    /\ \E i \in 1 .. Len(raf.pending), dt \in TickSteps :
           /\ raf.pending[i] = "timeout:runPause"
           /\ TickStep(runPause(Frame(World, anim), dt), dt, i)

NextLoop ==
    \/ TickStartLoop
    \/ TickRunLoop
    \/ TickRunPause
    \/ AssignX

SpecLoop == InitLoop /\ [][NextLoop]_vars

\* The browser runs every animation-frame callback and every timer callback
\* that stays pending.
SpecLoopLive ==
    /\ InitLoopIdle
    /\ [][NextLoop]_vars
    /\ WF_vars(TickStartLoop)
    /\ WF_vars(TickRunLoop)
    /\ WF_vars(TickRunPause)

\* Texture specification: one node loads and unloads textures, the microtasks
\* queued by loadTexture run, and textures become loaded or failed.
InitTex ==
    /\ nodes = Constructed(1).nodes
    /\ tree = Constructed(1).tree
    /\ dirtyNodes = Constructed(1).dirty
    /\ passLogs = <<>>
    /\ lastOp = Op("init", 0, 0, 0)
    /\ ops = 0
    /\ anim = NoAnim
    /\ hist = NoHist
    /\ fault = None
    /\ raf = NoRaf
    /\ stage = [on |-> TRUE, texture |-> 0, textures |-> <<>>, microtasks |-> <<>>,
                emitted |-> 0, stale |-> 0]

\* A call that changes the resources only.
ResourceStep(t, op) ==
    /\ stage' = t
    /\ lastOp' = op
    /\ UNCHANGED <<nodes, tree, dirtyNodes, passLogs, ops, anim, hist, fault, raf>>

LoadTexture ==
    /\ Len(stage.textures) < MaxTextures
    /\ ResourceStep(loadTexture(stage), Op("loadTexture", 1, 0, 0))

UnloadTexture ==
    ResourceStep(unloadTexture(stage), Op("unloadTexture", 1, stage.texture, 0))

RunMicrotask ==
    /\ stage.microtasks # <<>>
    /\ ResourceStep(runMicrotask(stage), Op("microtask", 1, Head(stage.microtasks), 0))

TextureSettles ==
    \E k \in 1 .. Len(stage.textures), state \in {"loaded", "failed"} :
        /\ stage.textures[k].state = "initial"
        /\ ResourceStep(setState(stage, k, state), Op("setState", 0, k, 0))

NextTex ==
    \/ LoadTexture
    \/ UnloadTexture
    \/ RunMicrotask
    \/ TextureSettles

SpecTex == InitTex /\ [][NextTex]_vars

\* Texture manager specification: the manager is constructed, its
\* initialization completes at some time, textures of both kinds are loaded,
\* processSome is called with any limit, and download promises settle.
InitTm ==
    /\ nodes = <<>>
    /\ tree = <<>>
    /\ dirtyNodes = <<>>
    /\ passLogs = <<>>
    /\ lastOp = Op("init", 0, 0, 0)
    /\ ops = 0
    /\ anim = NoAnim
    /\ hist = NoHist
    /\ fault = None
    /\ raf = NoRaf
    /\ stage = [on |-> TRUE, initialized |-> FALSE, textures |-> <<>>,
                downloadTextureSourceQueue |-> <<>>, uploadTextureQueue |-> <<>>,
                promises |-> {}, itemsProcessed |-> 0,
                downloaded |-> <<>>, uploaded |-> <<>>]

ItemLimits == {0, 1, 2, maxItemsPerFrame}

\* validateCreateImageBitmap() settled: both handlers set initialized.
Initialized ==
    /\ stage.initialized = FALSE
    /\ ResourceStep([stage EXCEPT !.initialized = TRUE], Op("initialized", 0, 0, 0))

TmLoadTexture ==
    \E image \in BOOLEAN :
        /\ Len(stage.textures) < MaxTextures
        /\ ResourceStep(txManagerLoadTexture(stage, image),
                        Op("loadTexture", 0, IF image THEN 1 ELSE 0, 0))

ProcessSome ==
    \E maxItems \in ItemLimits :
        \E t \in {processSome([stage EXCEPT !.downloaded = <<>>, !.uploaded = <<>>], maxItems)} :
            ResourceStep(t, Op("processSome", 0, maxItems, 0))

DownloadResolves ==
    \E k \in stage.promises :
        ResourceStep(downloadResolved(stage, k), Op("resolved", 0, k, 0))

DownloadRejects ==
    \E k \in stage.promises :
        ResourceStep(downloadRejected(stage, k), Op("rejected", 0, k, 0))

NextTm ==
    \/ Initialized
    \/ TmLoadTexture
    \/ ProcessSome
    \/ DownloadResolves
    \/ DownloadRejects

SpecTm == InitTm /\ [][NextTm]_vars

\* The initialization completes, processSome keeps being called, and every
\* download promise settles.
SpecTmLive ==
    /\ InitTm
    /\ [][NextTm]_vars
    /\ WF_vars(Initialized)
    /\ WF_vars(ProcessSome)
    /\ WF_vars(DownloadResolves \/ DownloadRejects)

\* Shader specification: useShader is called with any of the shaders.
Shaders == 1 .. MaxShaders

InitShader ==
    /\ nodes = <<>>
    /\ tree = <<>>
    /\ dirtyNodes = <<>>
    /\ passLogs = <<>>
    /\ lastOp = Op("init", 0, 0, 0)
    /\ ops = 0
    /\ anim = NoAnim
    /\ hist = NoHist
    /\ fault = None
    /\ raf = NoRaf
    /\ stage = [on |-> TRUE, attachedShader |-> 0,
                attached |-> [s \in Shaders |-> FALSE], calls |-> <<>>]

UseShader ==
    \E shader \in Shaders :
        /\ ops < MaxSteps
        /\ stage' = useShader(stage, shader)
        /\ lastOp' = Op("useShader", 0, shader, 0)
        /\ ops' = ops + 1
        /\ UNCHANGED <<nodes, tree, dirtyNodes, passLogs, anim, hist, fault, raf>>

NextShader == UseShader

SpecShader == InitShader /\ [][NextShader]_vars

----------------------------------------------------------------------------
(* Properties *)

Registered(h) == \E i \in 1 .. Len(tree) : tree[i] = h

Count(s, v) == Cardinality({i \in 1 .. Len(s) : s[i] = v})

NoDuplicates(s) == \A i, j \in 1 .. Len(s) : s[i] = s[j] => i = j

Recomputed == Len(passLogs) >= 1

\* The node's global transform is the composition the claim states.
Composed(h) ==
    LET n == nodes[h]
        parent == ParentOf(World, h)
    IN  IF parent = NullRef
        THEN n.globalTransform = Some(n.localTransform)
        ELSE n.globalTransform =
                Some(MatMultiply(nodes[parent].globalTransform[1], n.localTransform))

\* update() has run on the node, and on its parent when it has one.
Computed(h) ==
    /\ nodes[h].globalTransform # None
    /\ ParentOf(World, h) # NullRef => nodes[ParentOf(World, h)].globalTransform # None

\* C1: after a recomputation pass every registered node's global transform is
\* its parent's global transform times its own local transform (its local
\* transform when it has no parent), whether or not the node itself was
\* mutated.  Stated of the nodes update() has run on at least once.
C1_GlobalIsParentTimesLocal ==
    Recomputed => \A h \in Handles : Registered(h) /\ Computed(h) => Composed(h)

C3_ReparentMovesChild ==
    (/\ lastOp.op = "parent"
     /\ Len(passLogs) = 1
     /\ lastOp.a # NullId
     /\ lastOp.b # NullRef
     /\ lastOp.a # IdOf(nodes, lastOp.b))
    => LET h == lastOp.h
           oldParent == get(World, lastOp.a)
           newParent == lastOp.b
       IN  /\ Count(nodes[oldParent].childrenIds, IdOf(nodes, h)) = 0
           /\ Count(nodes[oldParent].children, h) = 0
           /\ Count(nodes[newParent].childrenIds, IdOf(nodes, h)) >= 1
           /\ Count(nodes[newParent].children, h) >= 1

\* C4: a registered node's id occurs exactly once in the childrenIds of the
\* node its parentId names and in no other node's childrenIds, for every id
\* including 0.
C4_ChildrenIdsMatchParentId ==
    \A h, p \in Handles :
        Registered(h) /\ Registered(p) =>
            Count(nodes[p].childrenIds, IdOf(nodes, h)) =
                (IF nodes[h].parentId = IdOf(nodes, p) THEN 1 ELSE 0)

\* C5: a node occurs at most once in the dirty set and update() runs on it at
\* most once in a pass, whatever setters were called before the pass.
C5_RecomputedOncePerFrame ==
    /\ NoDuplicates([i \in 1 .. Len(dirtyNodes) |-> IdOf(nodes, dirtyNodes[i])])
    /\ \A k \in 1 .. Len(passLogs) : NoDuplicates(passLogs[k])

\* A node two setters marked since it was constructed, not yet recomputed.
C5_Witness ==
    \E h \in Handles :
        /\ nodes[h].props.x = 50
        /\ nodes[h].props.scaleX = 2
        /\ nodes[h].globalTransform = None
        /\ Count(dirtyNodes, h) = 1

\* C6: a recomputation pass that follows another with no mutation in between
\* runs update() on no node and changes no node.
C6_SecondPassIsNoOp ==
    [][(Len(passLogs) >= 1 /\ Len(passLogs') = Len(passLogs) + 1)
        => (passLogs'[Len(passLogs')] = <<>> /\ nodes' = nodes /\ dirtyNodes' = dirtyNodes)]_vars

C6_Witness ==
    /\ Len(passLogs) = 2
    /\ Len(passLogs[1]) >= 2
    /\ passLogs[2] = <<>>

\* C10: add() never replaces a registered node: every node constructed is the
\* node the registry holds under its id (no node is removed in SpecReg).
C10_AddKeepsRegisteredNode ==
    \A h \in Handles : get(World, IdOf(nodes, h)) = h

\* C7: a node whose parent has z-index locking enabled reads an effective
\* z-index no greater than the one its parent reads.
C7_LockedChildNotAboveParent ==
    \A h \in Handles :
        LET parent == ParentOf(World, h)
        IN  parent # NullRef /\ zIndexLocked(World, parent) # 0
            => zIndex(World, h) <= zIndex(World, parent)

\* A locked chain in which the cap acts twice: the parent's own z-index is cut
\* to its parent's, and the node's to that.
C7_Witness ==
    \E h \in Handles :
        LET parent == ParentOf(World, h)
            grand == IF parent = NullRef THEN NullRef ELSE ParentOf(World, parent)
        IN  /\ parent # NullRef /\ grand # NullRef
            /\ zIndexLocked(World, parent) # 0 /\ zIndexLocked(World, grand) # 0
            /\ nodes[parent].props.zIndex > zIndex(World, parent)
            /\ nodes[h].props.zIndex > zIndex(World, h)
            /\ lastOp.op = "zIndex"

AnimatedProps == SeqToSet(anim.propsList)

\* C8: run to completion, reverse(), run to completion again: every animated
\* property is back at the value it had when the animation was created.
C8_RoundTripRestoresProps ==
    hist.trip = "done2" =>
        \A name \in AnimatedProps : NodeProp(World, anim.node, name) = hist.orig[name]

\* C9: with a non-zero duration and linear or no easing, after update() calls
\* whose steps sum to at most the duration, every animated numeric property is
\* start + (end - start) * sum / duration.
C9_LinearInterpolation ==
    (anim.settings.duration # 0 /\ hist.onlyUpdates /\ hist.sumDt <= anim.settings.duration)
    => \A name \in AnimatedProps :
          NodeProp(World, anim.node, name) * anim.settings.duration =
              hist.orig[name] * anim.settings.duration
                  + (hist.target[name] - hist.orig[name]) * hist.sumDt

\* Half way from -100 to 100 in two steps.
C9_Witness ==
    /\ anim.settings.duration = 4
    /\ hist.onlyUpdates
    /\ hist.sumDt = 2
    /\ lastOp = Op("update", 1, 1, 0)
    /\ "x" \in AnimatedProps
    /\ NodeProp(World, 1, "x") = 0

\* C11: a lookup of a non-null id under which no node is registered ends in a
\* fault naming the id and returns nothing: tree.get(id), and tree.findParent
\* of a node whose parentId is dangling.
C11_LookupOfUnregisteredFaults ==
    [][(/\ ops' = ops
        /\ passLogs' = passLogs
        /\ lastOp'.op \in {"get", "findParent"}
        /\ Unregistered(World, lastOp'.a))
       => (fault' = Some(lastOp'.a) /\ lastOp'.b = NullRef)]_vars

\* C12: in the pass that follows tree.remove(id) no update() faults, and a
\* node recomputed in it whose childrenIds holds the removed id has as children
\* the nodes still registered for its childrenIds, in list order.
C12_ResolveDropsUnregistered ==
    (lastOp.op = "remove" /\ Len(passLogs) = 1)
    => /\ fault = None
       /\ \A p \in SeqToSet(passLogs[1]) :
              Count(nodes[p].childrenIds, lastOp.a) >= 1
              => nodes[p].children =
                     SeqFilterRefs([i \in 1 .. Len(nodes[p].childrenIds) |->
                                       MapGet(nodes, tree, nodes[p].childrenIds[i])])

\* C13: a setter called with the value the property already has changes
\* nothing: the dirty set is as before and so is every node (recalculation
\* bitmask, update mask and cached clipping rect included).
C13_EqualAssignmentIsNoOp ==
    [][(/\ ops' = ops + 1
        /\ lastOp'.op \in {"x", "scaleX", "rotation", "alpha", "clipping"}
        /\ nodes'[lastOp'.h].props = nodes[lastOp'.h].props)
       => (dirtyNodes' = dirtyNodes /\ nodes' = nodes)]_vars

\* The nodes below h: those with h on their parent chain.
Descendants(h) == {d \in Handles : d # h /\ h \in Chain(World, d)}

\* The last operation gave a property of its node another value, and one pass
\* has run since.
ChangedThenRecomputed(names) ==
    lastOp.op \in names /\ lastOp.b = 1 /\ Len(passLogs) = 1 /\ fault = None

\* C14: in the pass after scaleX, rotation, alpha or clipping of a node
\* changed, update() runs on every descendant of the node, and after it every
\* descendant's global transform is its parent's current global transform times
\* its local transform.
C14_DescendantsRecomputed ==
    ChangedThenRecomputed({"scaleX", "rotation", "alpha", "clipping"})
    => \A d \in Descendants(lastOp.h) :
          /\ Count(passLogs[1], d) >= 1
          /\ Composed(d)

InDirtySet(id) == \E i \in 1 .. Len(dirtyNodes) : IdOf(nodes, dirtyNodes[i]) = id

\* C15: when the x setter (the y, width and height setters have the same
\* body) has given a node with a parent another value, the parent is in the
\* registry's dirty set.
C15_ParentMarkedDirty ==
    (/\ lastOp.op \in {"x", "y", "width", "height"}
     /\ lastOp.b = 1
     /\ passLogs = <<>>
     /\ nodes[lastOp.h].parentId # NullId)
    => InDirtySet(nodes[lastOp.h].parentId)

\* C16: after rotation or scaleX of a node changed and update() ran on it, its
\* scale-rotate matrix is the one of its current rotation and scale, and its
\* local transform is built from that matrix.
C16_ScaleRotateIsCurrent ==
    (/\ ChangedThenRecomputed({"rotation", "scaleX"})
     /\ Count(passLogs[1], lastOp.h) >= 1)
    => /\ nodes[lastOp.h].scaleRotateTransform = ScaleRotateOf(nodes[lastOp.h].props)
       /\ nodes[lastOp.h].localTransform =
              LocalOf(nodes[lastOp.h].props, ScaleRotateOf(nodes[lastOp.h].props))

\* update() ran on h in the last pass, and nothing was assigned since.
JustUpdated(h) == Len(passLogs) >= 1 /\ Count(passLogs[Len(passLogs)], h) >= 1 /\ fault = None

IsRotated(h) ==
    nodes[h].globalTransform[1].tb # 0 \/ nodes[h].globalTransform[1].tc # 0

\* The node's own rect, from its current global transform and size.
OwnRect(h) ==
    LET gt == nodes[h].globalTransform[1]
    IN  Rect(gt.tx, gt.ty, nodes[h].props.width * gt.ta, nodes[h].props.height * gt.td)

\* The own rect cut to the rect the parent passed to the last update(), which
\* the node keeps as parentClippingRect.
ExpectedClippingRect(h) ==
    IF nodes[h].parentClippingRect # None
    THEN Geometry(intersectRect(nodes[h].parentClippingRect[1], OwnRect(h)))
    ELSE OwnRect(h)

\* C17: after x or scaleX of a clipping, non-rotated node changed and update()
\* ran on it, its clippingRect is the rect of its current global transform and
\* size, intersected with the parent's rect when there is one; also when the
\* parent's rect is the one of the previous frame, or absent in both.
C17_ClippingRectFollowsGeometry ==
    (/\ ChangedThenRecomputed({"x", "scaleX"})
     /\ JustUpdated(lastOp.h)
     /\ nodes[lastOp.h].props.clipping
     /\ ~IsRotated(lastOp.h))
    => /\ nodes[lastOp.h].clippingRect # None
       /\ Geometry(nodes[lastOp.h].clippingRect[1]) = ExpectedClippingRect(lastOp.h)

\* C18: after update() on a clipping node whose global transform has a
\* non-zero tb or tc, clippingRect is the rect the parent passed in, null when
\* none was passed; never a rect of the node's own geometry.
C18_RotatedNodeHasNoOwnRect ==
    \A h \in Handles :
        (JustUpdated(h) /\ nodes[h].props.clipping /\ IsRotated(h))
        => nodes[h].clippingRect = nodes[h].parentClippingRect

\* C19: after update() on a clipping, non-rotated node whose parent passed a
\* clipping rect, clippingRect is the intersection of the parent's rect with
\* the node's own rect (tx, ty, width * ta, height * td).
C19_ClippingRectIsIntersection ==
    \A h \in Handles :
        (/\ JustUpdated(h)
         /\ nodes[h].props.clipping
         /\ ~IsRotated(h)
         /\ nodes[h].parentClippingRect # None)
        => /\ nodes[h].clippingRect # None
           /\ Geometry(nodes[h].clippingRect[1]) =
                  Geometry(intersectRect(nodes[h].parentClippingRect[1], OwnRect(h)))

\* The list is in ascending effective z-order, equal z-orders in id order.
SortedByZ(list) ==
    \A i, j \in 1 .. Len(list) :
        i < j => \/ zIndex(World, list[i]) < zIndex(World, list[j])
                 \/ /\ zIndex(World, list[i]) = zIndex(World, list[j])
                    /\ IdOf(nodes, list[i]) < IdOf(nodes, list[j])

\* C20: one pass after a node's zIndex was assigned or the node was given a
\* parent, the children list of the node's parent is in ascending effective
\* z-order, with equal z-orders in id order.
C20_ChildrenSortedByZ ==
    (/\ lastOp.op \in {"zIndex", "parent"}
     /\ Len(passLogs) = 1
     /\ fault = None
     /\ ParentOf(World, lastOp.h) # NullRef)
    => SortedByZ(nodes[ParentOf(World, lastOp.h)].children)

\* The product of the alpha values of h and of all its ancestors.
RECURSIVE AlphaProduct(_)
AlphaProduct(h) ==
    IF h = NullRef THEN 1 ELSE nodes[h].props.alpha * AlphaProduct(ParentOf(World, h))

\* C21: the world alpha a node reads is the product of its own alpha and the
\* alphas of all its ancestors, 0 included.
C21_WorldAlphaIsProduct ==
    \A h \in Handles : worldAlpha(World, h) = AlphaProduct(h)

Identity == Mat(1, 0, 0, 1, 0, 0)

\* A pass that ran to its end.
PassStep == Len(passLogs') = Len(passLogs) + 1 /\ fault' = None

\* x of h was given a new value after h's last update(): h waits in the dirty
\* set with the translate bit, and its local transform is that of another x.
XPending(h) ==
    /\ InDirtySet(IdOf(nodes, h))
    /\ Bit(nodes[h].recalculationType, 2)
    /\ nodes[h].globalTransform # None
    /\ nodes[h].localTransform.tx # nodes[h].props.x - nodes[h].props.mountX * nodes[h].props.width

UpdateCall == lastOp'.op = "update" /\ ops' = ops + 1 /\ anim.settings.duration # 0

\* C24: when update(dt) takes the progress above 1, a looping animation's
\* progress becomes 0 and no 'finished' is emitted, a non-looping animation's
\* progress becomes 1 and 'finished' is emitted once; after every update(dt)
\* the progress lies in 0 .. 1.
C24_OvershootWrapsOrCompletes ==
    [][UpdateCall =>
          /\ Overshoots(anim.progress + lastOp'.a, anim.settings.duration) =>
                 IF anim.settings.loop
                 THEN anim'.progress = 0 /\ anim'.finished = anim.finished
                 ELSE /\ anim'.progress = anim.settings.duration
                      /\ anim'.finished = anim.finished + 1
          /\ 0 <= anim'.progress /\ anim'.progress <= anim.settings.duration
      ]_vars

\* C25: after restore(), whatever calls came before it, the progress is 0 and
\* every animated property of the node has the value it had when the animation
\* was created.
C25_RestoreGivesCreationValues ==
    lastOp.op = "restore" =>
        /\ anim.progress = 0
        /\ \A name \in AnimatedProps : NodeProp(World, anim.node, name) = hist.orig[name]

\* C26: reverse() exchanges the start values and the targets of all animated
\* properties and sets the progress to 0, and writes nothing to the node; after
\* an even number of calls the start values and targets are those of creation.
C26_ReverseSwaps ==
    /\ [][(lastOp'.op = "reverse" /\ ops' = ops + 1) =>
              /\ anim'.props = anim.propStartValues
              /\ anim'.propStartValues = anim.props
              /\ anim'.progress = 0
              /\ nodes' = nodes]_vars
    /\ [](hist.on /\ hist.reversals # 1 =>
              anim.propStartValues = hist.orig /\ anim.props = hist.target)

\* After an update in between, a second reverse() has brought back start -100
\* and target 100.
C26_Witness ==
    /\ lastOp.op = "reverse"
    /\ hist.reversals = 2
    /\ "x" \in AnimatedProps
    /\ anim.propStartValues["x"] = 0 - 100
    /\ anim.props["x"] = 100
    /\ anim.progress = 0
    /\ NodeProp(World, anim.node, "x") # 0 - 100

\* C27: update(dt) on an animation with duration 0 emits 'finished' once, for
\* any dt, and leaves the progress and the node as they were.
C27_ZeroDurationFinishesAtOnce ==
    [][(lastOp'.op = "update" /\ ops' = ops + 1 /\ anim.settings.duration = 0) =>
          /\ anim'.finished = anim.finished + 1
          /\ anim'.progress = anim.progress
          /\ nodes' = nodes]_vars

\* The first call, update(5), of an animation with duration 0.
C27_Witness ==
    /\ anim.on
    /\ anim.settings.duration = 0
    /\ ops = 1
    /\ lastOp = Op("update", anim.node, 5, 0)
    /\ anim.finished = 1
    /\ anim.progress = 0

\* C28: once a non-looping animation with a duration has emitted 'finished',
\* and only update() was called on it, another update(dt) leaves the progress
\* at 1 and the node's properties as they were.
C28_CompletedIsTerminal ==
    [][(/\ UpdateCall
        /\ ~anim.settings.loop
        /\ hist.onlyUpdates
        /\ anim.finished >= 1)
       => /\ anim'.progress = anim.settings.duration
          /\ \A name \in AnimatedProps :
                 NodeProp([nodes |-> nodes'], anim.node, name) = NodeProp(World, anim.node, name)
      ]_vars

\* C29: once reverse() was called on a non-looping animation its stop method
\* is false, through all later calls; the stop method of a looping animation,
\* and of one never reversed, is the one it was given.
C29_StopMethodClearedOnce ==
    hist.on =>
        IF anim.settings.loop \/ hist.reversals = 0
        THEN anim.settings.stopMethod = hist.stop0
        ELSE anim.settings.stopMethod = "false"

\* A non-looping animation given stopMethod 'reverse', reversed and then updated.
C29_Witness ==
    /\ hist.on
    /\ ~anim.settings.loop
    /\ hist.stop0 = "reverse"
    /\ hist.reversals = 1
    /\ lastOp.op = "update"
    /\ anim.settings.stopMethod = "false"

\* C30: with pauseRaf, a tick in which the stage reported no scene updates has
\* called drawFrame not at all and updateAnimations once; without pauseRaf every
\* tick has called drawFrame.
C30_PausedTickSkipsDraw ==
    (raf.on /\ raf.ticks >= 1) =>
        IF raf.pauseRaf
        THEN (\E i \in 1 .. Len(raf.reports) : ~raf.reports[i]) =>
                 raf.draws = 0 /\ raf.anims = 1
        ELSE raf.draws = 1

\* The loop of loop(stage) found nothing to draw in a frame callback and went
\* to pause, where the animation was advanced and still left nothing dirty.
C30_Witness ==
    /\ raf.on /\ raf.pauseRaf /\ raf.file = "loop"
    /\ raf.ticks >= 2
    /\ raf.reports = <<FALSE, FALSE>>
    /\ raf.pending = <<"timeout:runPause">>
    /\ raf.draws = 0 /\ raf.anims = 1
    /\ anim.finished >= 1

\* The registered nodes named in the id list, in list order.
RECURSIVE RegisteredNamed(_)
RegisteredNamed(idList) ==
    IF idList = <<>> THEN <<>>
    ELSE (IF Unregistered(World, Head(idList)) THEN <<>>
          ELSE <<MapGet(nodes, tree, Head(idList))>>)
         \o RegisteredNamed(Tail(idList))

\* C31: in a pass that ran to its end, a node whose update() found the
\* children-stale bit set has as children the registered nodes named in its
\* childrenIds, in that order, and no other node: none when childrenIds is empty.
C31_ResolvedChildrenAreNamed ==
    [][PassStep =>
          \A h \in Handles :
              (Count(dirtyNodes, h) >= 1 /\ Bit(nodes[h].updateMask, 1)) =>
                  nodes'[h].children = RegisteredNamed(nodes[h].childrenIds)]_vars

\* C32: when an update(dt) with dt > 0 of a non-looping animation on which only
\* update() was called emits 'finished', every animated property of the node
\* has its target value; animations with duration 0 included.
C32_CompletionReachesTargets ==
    [][(/\ lastOp'.op = "update" /\ ops' = ops + 1 /\ lastOp'.a > 0
        /\ ~anim.settings.loop
        /\ hist.onlyUpdates
        /\ anim'.finished > anim.finished)
       => \A name \in AnimatedProps :
              NodeProp([nodes |-> nodes'], anim.node, name) = hist.target[name]]_vars

\* C33: every node in the registry's dirty set is registered, and a pass runs
\* update() on registered nodes only.
C33_DirtyNodesAreRegistered ==
    /\ \A i \in 1 .. Len(dirtyNodes) : Registered(dirtyNodes[i])
    /\ \A p \in 1 .. Len(passLogs) : \A i \in 1 .. Len(passLogs[p]) :
           Registered(passLogs[p][i])

\* The node k parent links above h, NullRef when the chain ends before.
RECURSIVE NthParent(_, _)
NthParent(h, k) ==
    IF k = 0 \/ h = NullRef THEN h ELSE NthParent(ParentOf(World, h), k - 1)

\* C34: the parent relation is acyclic: no node is reached from itself by
\* following parent links.
C34_ParentRelationAcyclic ==
    \A h \in Handles : \A k \in 1 .. Len(nodes) : NthParent(h, k) # h

\* C35: the node emits no 'loaded' or 'failed' event caused by a texture it
\* has dropped, and its handlers listen on no texture but its own, also when
\* the texture was dropped before the microtask of its loadTexture() ran.
C35_DroppedTextureIsSilent ==
    stage.on =>
        /\ stage.stale = 0
        /\ \A k \in 1 .. Len(stage.textures) :
               k # stage.texture => stage.textures[k].listeners = 0

\* C36: a non-looping animation with a duration, on which only update() is
\* called, emits 'finished' at most once.
C36_FinishedOnce ==
    (hist.on /\ hist.onlyUpdates /\ ~anim.settings.loop /\ anim.settings.duration # 0)
    => anim.finished <= 1

\* The loop waits on a timer.
Paused ==
    \E i \in 1 .. Len(raf.pending) :
        raf.pending[i] \in {"timeout:runLoop", "timeout:runPause"}

\* C37: exactly one callback of the loop is pending at every moment; and when
\* the loop with pauseRaf is paused and the scene has updates, which stay until
\* a frame is drawn, a tick that calls drawFrame follows.
C37_PausedLoopResumes ==
    /\ [](raf.on => Len(raf.pending) = 1)
    /\ (raf.on /\ raf.pauseRaf /\ Paused /\ dirtyNodes # <<>>)
           ~> (raf.draws = 1 /\ dirtyNodes = <<>>)

\* The paused loop of loop(stage) has drawn the frame of an assignment.
C37_Witness ==
    /\ raf.on /\ raf.pauseRaf /\ raf.file = "loop"
    /\ ops >= 1
    /\ raf.draws = 1
    /\ raf.pending = <<"raf:runLoop">>
    /\ dirtyNodes = <<>>

\* Every texture loaded so far is settled: failed, or uploaded once.
Settled(k) ==
    /\ k <= Len(stage.textures)
    /\ IF stage.textures[k].image
       THEN stage.textures[k].state = "failed" \/ stage.textures[k].uploads = 1
       ELSE stage.textures[k].uploads = 1

\* C38: no texture is uploaded twice, no image texture is uploaded before its
\* data has arrived or after it failed, and every texture passed to
\* loadTexture() comes to be failed (image textures only) or uploaded once.
C38_TexturesUploadedOnce ==
    /\ [](\A k \in 1 .. Len(stage.textures) :
              /\ stage.textures[k].uploads <= 1
              /\ ~stage.textures[k].early
              /\ stage.textures[k].state = "failed" => stage.textures[k].uploads = 0)
    /\ \A k \in 1 .. MaxTextures : (Len(stage.textures) >= k) ~> Settled(k)

\* An image texture went through download and upload while another failed.
C38_Witness ==
    \E k, j \in 1 .. Len(stage.textures) :
        /\ stage.textures[k].image /\ stage.textures[k].data
        /\ stage.textures[k].uploads = 1
        /\ stage.textures[j].state = "failed"
        /\ lastOp.op = "processSome"

\* The first n elements of the queue, and the rest.
Taken(queue, n) == SubSeq(queue, 1, n)

Left(queue, n) == SubSeq(queue, n + 1, Len(queue))

\* C39: a call of processSome(maxItems) shifts a prefix of the download queue
\* and a prefix of the upload queue, uploads only when no download is left, at
\* most maxItems textures in all; before the initialization nothing is taken.
C39_ProcessSomeTakesAtMostMax ==
    [][lastOp'.op = "processSome" =>
          LET d == Len(stage'.downloaded)
              u == Len(stage'.uploaded)
          IN  /\ d + u <= lastOp'.a
              /\ d <= Len(stage.downloadTextureSourceQueue)
              /\ u <= Len(stage.uploadTextureQueue)
              /\ stage'.downloaded = Taken(stage.downloadTextureSourceQueue, d)
              /\ stage'.downloadTextureSourceQueue = Left(stage.downloadTextureSourceQueue, d)
              /\ stage'.uploaded = Taken(stage.uploadTextureQueue, u)
              /\ stage'.uploadTextureQueue = Left(stage.uploadTextureQueue, u)
              /\ u > 0 => stage'.downloadTextureSourceQueue = <<>>
              /\ ~stage.initialized => d + u = 0
      ]_vars

\* A call with limit 2 took one download and one of two waiting uploads.
C39_Witness ==
    /\ lastOp = Op("processSome", 0, 2, 0)
    /\ Len(stage.downloaded) = 1
    /\ Len(stage.uploaded) = 1
    /\ Len(stage.uploadTextureQueue) = 1

\* C40: after a call of useShader the shader given is the attached one and the
\* only one whose last call was attach(); an attach() that is not the first
\* call comes right after the detach() of the shader attached before; and
\* useShader with the attached shader calls neither.
C40_OneShaderAttached ==
    /\ [](ops >= 1 =>
              /\ stage.attachedShader = lastOp.a
              /\ {s \in Shaders : stage.attached[s]} = {lastOp.a})
    /\ [](\A i \in 2 .. Len(stage.calls) :
              stage.calls[i][1] = "attach" =>
                  /\ stage.calls[i - 1][1] = "detach"
                  /\ \E j \in 1 .. i - 2 :
                         /\ stage.calls[j] = <<"attach", stage.calls[i - 1][2]>>
                         /\ \A n \in j + 1 .. i - 2 : stage.calls[n][1] # "attach")
    /\ [][(ops' = ops + 1 /\ stage.attachedShader = lastOp'.a) =>
              stage'.calls = stage.calls]_vars

\* Shader 2 replaced shader 1, then was used again.
C40_Witness ==
    /\ ops = 3
    /\ lastOp = Op("useShader", 0, 2, 0)
    /\ stage.attachedShader = 2
    /\ stage.calls = <<<<"attach", 1>>, <<"detach", 1>>, <<"attach", 2>>>>
====
